---- MODULE Spec2Model ----
(***************************************************************************)
(* Echo review harvester (src/Echo/echo_Google_Business_HTML_v1.7.py):     *)
(* main() as a state machine.  The rendered page is the environment: what  *)
(* a lookup returns is drawn from bounded sets at the step that reads it.  *)
(*                                                                         *)
(* Texts are TLA+ strings.  Three characters of the source are not ASCII   *)
(* and are written with reserved stand-ins that occur nowhere else:        *)
(*    "~"  is the horizontal ellipsis U+2026 (line 208)                    *)
(*    "^"  is the icon character U+E5D4 of junk_keywords (line 326)        *)
(*    "|"  is the icon character U+E838 of junk_keywords (line 326)        *)
(***************************************************************************)
EXTENDS Integers, Sequences, FiniteSets, TLC

VARIABLES
    pc,                 \* position of main()
    driver,             \* browser session: "none", "open", "quit"
    scroll_attempts,    \* line 128
    last_review_count,  \* line 130
    stable_scrolls,     \* line 131
    grew,               \* history: rounds 1..grew each saw the count grow
    steady,             \* history: no round after `grew` changed the count
    review_cards,       \* line 147: the cards found, in document order
    more_buttons,       \* line 150: the "More" buttons found
    clicks,             \* history: outcome of each click attempt, in order
    unique_reviews,     \* line 159: ordered dict
    unique_bound,       \* whether the name unique_reviews is bound
    i,                  \* line 214: enumerate index
    reviewer,           \* line 215
    rating,             \* line 216
    text,               \* line 219
    source,             \* line 220
    tried,              \* history: strategies run on the current entry
    data,               \* line 213: the records
    csv,                \* line 468: the rows written; NoFile when none is
    notices,            \* what the operator was shown (st.error/st.warning)
    session_state,      \* keys of st.session_state, kept across reruns
    launches,           \* history: browsers launched in this session
    debug_file,         \* whether a file exists at debug_path
    uploads             \* history: folders files were uploaded to, in order

vars == <<pc, driver, scroll_attempts, last_review_count, stable_scrolls,
          grew, steady, review_cards, more_buttons, clicks, unique_reviews,
          unique_bound, i, reviewer, rating,
          text, source, tried, data, csv, notices, session_state, launches,
          debug_file, uploads>>

----------------------------------------------------------------------------
(* Bounds of the model *)

MaxCount == 5        \* largest entry count a scroll round reports
MaxDup == 3          \* cards on a page that repeats review ids
MaxIds == 2          \* distinct review ids on such a page
MaxCards == 2        \* cards on a short page of mixed cards
MaxOdd == 1          \* cards of a short page that differ from BaseCard
LongExtra == 1       \* cards past the index cutoff on a long page
MaxRuns == 2         \* scraper runs followed within one session

(* Program constants *)

max_scrolls == 60
StabilityRounds == 3
IndexCutoff == 29
debug_mode == TRUE

----------------------------------------------------------------------------
(* Strings *)

LowerAlpha == "abcdefghijklmnopqrstuvwxyz"
UpperAlpha == "ABCDEFGHIJKLMNOPQRSTUVWXYZ"
DigitChars == "0123456789"
Ellipsis == "~"

Char(s, k) == SubSeq(s, k, k)

InStr(c, s) == \E k \in 1..Len(s) : Char(s, k) = c

IsSpace(c) == c = " "
IsLower(c) == InStr(c, LowerAlpha)
IsUpper(c) == InStr(c, UpperAlpha)
IsAsciiLetter(c) == IsLower(c) \/ IsUpper(c)
IsDigit(c) == InStr(c, DigitChars)
IsWordChar(c) == IsAsciiLetter(c) \/ IsDigit(c) \/ c = "_"

LowerChar(c) ==
    IF IsUpper(c)
    THEN Char(LowerAlpha, CHOOSE k \in 1..26 : Char(UpperAlpha, k) = c)
    ELSE c

RECURSIVE StrLower(_)
StrLower(s) ==
    IF s = "" THEN ""
    ELSE LowerChar(Char(s, 1)) \o StrLower(SubSeq(s, 2, Len(s)))

Contains(s, sub) ==
    \E k \in 0..(Len(s) - Len(sub)) : SubSeq(s, k + 1, k + Len(sub)) = sub

RECURSIVE LStrip(_)
LStrip(s) ==
    IF s # "" /\ IsSpace(Char(s, 1)) THEN LStrip(SubSeq(s, 2, Len(s))) ELSE s

RECURSIVE RStrip(_)
RStrip(s) ==
    IF s # "" /\ IsSpace(Char(s, Len(s)))
    THEN RStrip(SubSeq(s, 1, Len(s) - 1)) ELSE s

Strip(s) == RStrip(LStrip(s))

EndsWith(s, suffix) ==
    /\ Len(s) >= Len(suffix)
    /\ SubSeq(s, Len(s) - Len(suffix) + 1, Len(s)) = suffix

RECURSIVE KeepWordChars(_)
KeepWordChars(s) ==
    IF s = "" THEN ""
    ELSE (IF IsWordChar(Char(s, 1)) THEN Char(s, 1) ELSE "")
         \o KeepWordChars(SubSeq(s, 2, Len(s)))

HasAsciiLetter(s) == \E k \in 1..Len(s) : IsAsciiLetter(Char(s, k))

OwnerPhrase == "response from the owner"

----------------------------------------------------------------------------
(* clean_final_text, lines 48-54 *)

CleanCaseSensitive(raw_text) ==
    IF raw_text = "" THEN ""
    ELSE IF Contains(raw_text, OwnerPhrase) THEN ""
    ELSE Strip(raw_text)

clean_final_text(raw_text) ==
    IF raw_text = "" THEN ""
    ELSE IF Contains(StrLower(raw_text), OwnerPhrase) THEN ""
    ELSE Strip(raw_text)

(* is_valid_comment, lines 197-210 *)

is_valid_comment(t) ==
    IF t = "" \/ Len(Strip(t)) < 5 THEN FALSE
    ELSE IF Contains(StrLower(t), OwnerPhrase) THEN FALSE
    ELSE IF Len(KeepWordChars(t)) < 3 THEN FALSE
    ELSE IF EndsWith(Strip(t), Ellipsis) /\ ~HasAsciiLetter(t) THEN FALSE
    ELSE TRUE

----------------------------------------------------------------------------
(* The rendered page.  A card is what the lookups of lines 215-346 and     *)
(* 359-362 find under one div[@data-review-id]:                            *)
(*   id          data-review-id, or IdError when reading it raises         *)
(*   reviewer    text of .d4r55, or NoElement                              *)
(*   rating      aria-label of .kvMYJc: a string, NoneAttr, or NoElement   *)
(*   date        text of .rsqaWe, or NoElement                             *)
(*   wi          the .wiI7pd spans: owner (under .CDe7pd) and text         *)
(*   rfdo        the .RfDO5c nodes: owner, text and class attribute        *)
(*   elems       every descendant: owner (under .CDe7pd) and text          *)
(*   jslog       whether a div[@jslog="127691"] exists (it then holds the  *)
(*               card's .RfDO5c nodes)                                     *)
(*   images      the image buttons of line 368: style attribute, and       *)
(*               whether fetching the image succeeds                       *)
(*   more        the card's "More" button (line 150): NoElement, or how    *)
(*               a click on it ends                                        *)
(*   likes       text of .pkWtMe (line 399), or NoElement                  *)

NoElement == "<no element>"
NoneAttr == "<None>"
IdError == <<"unreadable">>
ReviewId(n) == <<"id", n>>

Span(o, t) == [owner |-> o, text |-> t]
Image(style_attr, fetch_ok) == [style |-> style_attr, ok |-> fetch_ok]
Tagged(o, t) == [owner |-> o, text |-> t, cls |-> "RfDO5c"]

BaseCard ==
    [id |-> ReviewId(0), reviewer |-> "Ann Lee", rating |-> "5 stars",
     date |-> "3 weeks ago",
     wi |-> <<Span(FALSE, "Great food and friendly staff")>>,
     rfdo |-> <<>>,
     elems |-> <<Span(FALSE, "Ann Lee"),
                 Span(FALSE, "Great food and friendly staff")>>,
     jslog |-> FALSE,
     images |-> <<>>,
     more |-> NoElement,
     likes |-> NoElement]

TextShapes ==
    { \* no primary span; the review text is only in the subtree
      [wi |-> <<>>, rfdo |-> <<>>, jslog |-> FALSE,
       elems |-> <<Span(FALSE, "Loved every minute of our stay")>>],
      \* the only primary span is the owner's reply
      [wi |-> <<Span(TRUE, "Thank you for visiting us")>>, rfdo |-> <<>>,
       jslog |-> FALSE,
       elems |-> <<Span(TRUE, "Thank you for visiting us")>>],
      \* owner's reply first, the review second
      [wi |-> <<Span(TRUE, "Thank you for visiting us"),
                Span(FALSE, "Rooms were clean and quiet")>>,
       rfdo |-> <<>>, jslog |-> FALSE,
       elems |-> <<Span(TRUE, "Thank you for visiting us"),
                   Span(FALSE, "Rooms were clean and quiet")>>],
      \* a primary span too short to be valid
      [wi |-> <<Span(FALSE, "Good")>>, rfdo |-> <<>>, jslog |-> FALSE,
       elems |-> <<Span(FALSE, "Ann Lee"), Span(FALSE, "Good")>>],
      \* the review itself quotes the owner-reply phrase
      [wi |-> <<Span(FALSE, "No Response From The Owner yet")>>,
       rfdo |-> <<>>, jslog |-> FALSE,
       elems |-> <<Span(FALSE, "No Response From The Owner yet")>>],
      \* punctuation with a single letter
      [wi |-> <<Span(FALSE, "a . . . .")>>, rfdo |-> <<>>, jslog |-> FALSE,
       elems |-> <<Span(FALSE, "a . . . .")>>],
      \* digits ending in an ellipsis
      [wi |-> <<Span(FALSE, "2024 ~")>>, rfdo |-> <<>>, jslog |-> FALSE,
       elems |-> <<Span(FALSE, "2024 ~")>>],
      \* surrounding blanks
      [wi |-> <<Span(FALSE, " Lovely place to eat ")>>, rfdo |-> <<>>,
       jslog |-> FALSE,
       elems |-> <<Span(FALSE, " Lovely place to eat ")>>],
      \* no primary span, UI chrome in the subtree
      [wi |-> <<>>, rfdo |-> <<>>, jslog |-> FALSE,
       elems |-> <<Span(FALSE, "New"),
                   Span(FALSE, "Loved every minute of our stay")>>],
      \* no primary span; one lowercase letter among twenty characters
      [wi |-> <<>>, rfdo |-> <<>>, jslog |-> FALSE,
       elems |-> <<Span(FALSE, "WOW BEST PIZZA IN La")>>],
      \* the text is only in tagged-text nodes under the narrow marker
      [wi |-> <<>>, jslog |-> TRUE, elems |-> <<>>,
       rfdo |-> <<Tagged(FALSE, "Quick and friendly service"),
                  Tagged(TRUE, "Thank you")>>] }

WithShape(s) ==
    [BaseCard EXCEPT !.wi = s.wi, !.rfdo = s.rfdo, !.elems = s.elems,
                     !.jslog = s.jslog]

OddCards ==
    { WithShape(s) : s \in TextShapes }
    \cup { [BaseCard EXCEPT !.reviewer = NoElement] }
    \cup { [BaseCard EXCEPT !.rating = r]
             : r \in {NoElement, NoneAttr, "Rated"} }
    \cup { [BaseCard EXCEPT !.date = d] : d \in {NoElement, "today"} }

CardKinds == {BaseCard} \cup OddCards

DupIds == {ReviewId(m) : m \in 1..MaxIds} \cup {IdError}

\* pages that repeat ids or hold cards whose id cannot be read
DupPages ==
    UNION { { [j \in 1..n |-> [BaseCard EXCEPT !.id = ids[j]]]
              : ids \in [1..n -> DupIds] }
            : n \in 0..MaxDup }

\* short pages: distinct ids, at most MaxOdd cards that are not BaseCard
MixedPages ==
    UNION { UNION { { [j \in 1..n |->
                        [(IF j \in P THEN f[j] ELSE BaseCard)
                            EXCEPT !.id = ReviewId(j)]]
                      : f \in [P -> OddCards] }
                    : P \in {Q \in SUBSET (1..n) : Cardinality(Q) <= MaxOdd} }
            : n \in 0..MaxCards }

\* long pages: distinct ids, every card of the same kind
LongPages ==
    { [j \in 1..(IndexCutoff + LongExtra) |-> [k EXCEPT !.id = ReviewId(j)]]
      : k \in CardKinds }

\* rating labels with a digit that is no star count
RatingLabels == {"Rated 8 out of 10"}

\* relative-date labels (BaseCard has "3 weeks ago", OddCards "today")
DateLabels ==
    {"2 days ago", "10 days ago", "4 months ago", "1 year ago", "a week ago",
     "12 minutes ago"}

\* the .RfDO5c nodes of a card with structured tags
TagShapes ==
    { <<Tagged(FALSE, "Services"), Tagged(FALSE, "Delivery"),
        Tagged(FALSE, "Positive"), Tagged(FALSE, "Fast"),
        Tagged(FALSE, "Friendly")>>,
      <<Tagged(FALSE, "Cozy"), Tagged(FALSE, " PRICE "),
        Tagged(FALSE, "Cheap"), Tagged(FALSE, "Negative"),
        Tagged(FALSE, " Slow "), Tagged(FALSE, "services"),
        Tagged(FALSE, "Takeaway"), Tagged(FALSE, "Price"),
        Tagged(FALSE, "Fair")>>,
      <<Tagged(FALSE, "Positive"), Tagged(FALSE, "Negative"),
        Tagged(FALSE, "Loud"), Tagged(TRUE, "Noted")>> }

\* the image buttons of a card
ImageShapes ==
    { <<Image("background-image: url(\"https://lh3.googleusercontent.com/p1\");",
              TRUE)>>,
      <<Image("background-image: url('https://lh3.googleusercontent.com/p1')",
              TRUE),
        Image("background-image: url(https://lh3.googleusercontent.com/p2)",
              TRUE)>>,
      <<Image("background-image: url(https://lh3.googleusercontent.com/p1)",
              FALSE),
        Image("background-image: url('https://lh3.googleusercontent.com/p2')",
              TRUE)>>,
      <<Image("background-image: url('https://cdn.example/googleusercontent')",
              TRUE)>>,
      <<Image("background-image: url('https://cdn.example/p1')", TRUE),
        Image("background-image: url('http://lh3.googleusercontent.com/p2')",
              TRUE)>>,
      <<Image("background-image: url('https://lh3.googleusercontent.com/p1'",
              TRUE)>> }

\* texts of the like-count node
LikeTexts == {"12", " 7 ", "1.2K", "", "-3"}

\* cards that differ from BaseCard in one structured field
ImageChoices ==
    { <<>>,
      <<Image("background-image: url('https://lh3.googleusercontent.com/p1')",
              TRUE),
        Image("background-image: url(https://lh3.googleusercontent.com/p2)",
              TRUE)>> }

FieldCards ==
    { [BaseCard EXCEPT !.rating = r] : r \in RatingLabels }
    \cup { [BaseCard EXCEPT !.date = d] : d \in DateLabels }
    \cup { [BaseCard EXCEPT !.rfdo = t] : t \in TagShapes }
    \cup { [BaseCard EXCEPT !.images = m] : m \in ImageShapes }
    \cup { [BaseCard EXCEPT !.more = b] : b \in {"clicked", "failed"} }
    \cup { [BaseCard EXCEPT !.likes = t] : t \in LikeTexts }

\* short pages: distinct ids, one card of FieldCards among BaseCards
FieldPages ==
    UNION { { [j \in 1..n |->
                 [(IF j = p THEN c ELSE BaseCard) EXCEPT !.id = ReviewId(j)]]
              : p \in 1..n, c \in FieldCards }
            : n \in 1..MaxCards }

\* short pages: distinct ids, any card with or without a "More" button
ButtonPages ==
    UNION { { [j \in 1..n |->
                 [BaseCard EXCEPT !.id = ReviewId(j), !.more = b[j]]]
              : b \in [1..n -> {NoElement, "clicked", "failed"}] }
            : n \in 1..MaxCards }

\* short pages: distinct ids, any card with or without two images
ImagePages ==
    UNION { { [j \in 1..n |->
                 [BaseCard EXCEPT !.id = ReviewId(j), !.images = m[j]]]
              : m \in [1..n -> ImageChoices] }
            : n \in 1..MaxCards }

Pages ==
    DupPages \cup MixedPages \cup LongPages \cup FieldPages \cup ButtonPages
         \cup ImagePages

\* line 150: the "More" buttons of the document, in document order
RECURSIVE MoreButtons(_)
MoreButtons(cards) ==
    IF cards = <<>> THEN <<>>
    ELSE (IF cards[1].more = NoElement THEN <<>> ELSE <<cards[1].more>>)
         \o MoreButtons(Tail(cards))

----------------------------------------------------------------------------
(* Launch and page readiness, lines 103-120 *)

NoFile == <<>>

Init ==
    /\ pc = "idle"
    /\ driver = "none"
    /\ scroll_attempts = 0
    /\ last_review_count = 0
    /\ stable_scrolls = 0
    /\ grew = 0
    /\ steady = TRUE
    /\ review_cards = <<>>
    /\ more_buttons = <<>>
    /\ clicks = <<>>
    /\ unique_reviews = <<>>
    /\ unique_bound = FALSE
    /\ i = 0
    /\ reviewer = ""
    /\ rating = ""
    /\ text = ""
    /\ source = "none"
    /\ tried = <<>>
    /\ data = <<>>
    /\ csv = NoFile
    /\ notices = <<>>
    /\ session_state = {}
    /\ launches = 0
    /\ debug_file = FALSE
    /\ uploads = <<>>

sessionVars == <<session_state, launches>>
fileVars == <<debug_file, uploads>>
pageVars == <<review_cards, more_buttons, clicks>>
uniqueVars == <<unique_reviews, unique_bound>>
loaderVars ==
    <<scroll_attempts, last_review_count, stable_scrolls, grew, steady>>
entryVars == <<i, reviewer, rating, text, source, tried>>

\* line 103: nothing runs unless a URL is given and the button pressed
Launch ==
    /\ pc = "idle"
    /\ \E url_and_start \in BOOLEAN :
          IF url_and_start
          THEN pc' = "loading" /\ driver' = "open"
          ELSE pc' = "returned" /\ driver' = driver
    /\ UNCHANGED <<sessionVars, fileVars, loaderVars, pageVars, uniqueVars, entryVars, data,
                   csv, notices>>

WaitReadyCarriesOn ==
    /\ pc = "loading"
    /\ \E loaded \in BOOLEAN :
          /\ pc' = "ready"
          /\ notices' = IF loaded THEN notices
                        ELSE Append(notices, "load failed")
    /\ UNCHANGED <<sessionVars, fileVars, driver, loaderVars, pageVars, uniqueVars, entryVars, data,
                   csv>>

\* lines 111-120: wait for the business title
WaitReady ==
    /\ pc = "loading"
    /\ \E loaded \in BOOLEAN :
          IF loaded
          THEN pc' = "ready" /\ driver' = driver /\ notices' = notices
          ELSE /\ pc' = "returned"
               /\ driver' = "quit"
               /\ notices' = Append(notices, "load failed")
    /\ UNCHANGED <<sessionVars, fileVars, loaderVars, pageVars, uniqueVars, entryVars, data,
                   csv>>

----------------------------------------------------------------------------
(* Scroll loop, lines 123-144 *)

ScrollCondOffByOne(attempts, stable) ==
    attempts <= max_scrolls /\ stable < StabilityRounds

\* line 133
ScrollCond(attempts, stable) ==
    attempts < max_scrolls /\ stable < StabilityRounds

StableAfterCountsGrowth(stable, count, last) ==
    IF count >= last THEN stable + 1 ELSE 0

\* lines 137-140
StableAfter(stable, count, last) ==
    IF count = last THEN stable + 1 ELSE 0

LocateContainerCarriesOn ==
    /\ pc = "ready"
    /\ \E found \in BOOLEAN :
          /\ pc' = "scroll"
          /\ notices' = IF found THEN notices
                        ELSE Append(notices, "scroll error")
    /\ scroll_attempts' = 0
    /\ last_review_count' = 0
    /\ stable_scrolls' = 0
    /\ UNCHANGED <<sessionVars, fileVars, driver, grew, steady, pageVars, uniqueVars, entryVars,
                   data, csv>>

\* lines 125-131: locate the scroll container; a failure is caught at
\* line 170 and main() goes on at line 173 with unique_reviews unbound
LocateContainer ==
    /\ pc = "ready"
    /\ \E found \in BOOLEAN :
          IF found
          THEN pc' = "scroll" /\ notices' = notices
          ELSE pc' = "loop" /\ notices' = Append(notices, "scroll error")
    /\ scroll_attempts' = 0
    /\ last_review_count' = 0
    /\ stable_scrolls' = 0
    /\ UNCHANGED <<sessionVars, fileVars, driver, grew, steady, pageVars, uniqueVars, entryVars,
                   data, csv>>

\* lines 133-142: one round; the count is what find_elements reports
ScrollRound ==
    /\ pc = "scroll"
    /\ ScrollCond(scroll_attempts, stable_scrolls)
    /\ \E count \in 0..MaxCount :
          /\ stable_scrolls' =
                 StableAfter(stable_scrolls, count, last_review_count)
          /\ last_review_count' = count
          /\ grew' = IF count > last_review_count /\ grew = scroll_attempts
                     THEN grew + 1 ELSE grew
          /\ steady' = (steady /\ (count = last_review_count
                                   \/ (count > last_review_count
                                       /\ grew = scroll_attempts)))
    /\ scroll_attempts' = scroll_attempts + 1
    /\ UNCHANGED <<sessionVars, fileVars, pc, driver, pageVars, uniqueVars, entryVars, data,
                   csv, notices>>

\* line 133, condition false
ScrollExit ==
    /\ pc = "scroll"
    /\ ~ScrollCond(scroll_attempts, stable_scrolls)
    /\ pc' = "scrolled"
    /\ UNCHANGED <<sessionVars, fileVars, driver, loaderVars, pageVars, uniqueVars, entryVars,
                   data, csv, notices>>

\* lines 144-150: report the attempts, then find the cards and the "More"
\* buttons.  The loop's locals are read here for the last time; the model
\* stops tracking them.
FindCards ==
    /\ pc = "scrolled"
    /\ \E page \in Pages : /\ review_cards' = page
                            /\ more_buttons' = MoreButtons(page)
    /\ clicks' = <<>>
    /\ pc' = "expand"
    /\ scroll_attempts' = 0
    /\ last_review_count' = 0
    /\ stable_scrolls' = 0
    /\ grew' = 0
    /\ steady' = TRUE
    /\ UNCHANGED <<sessionVars, fileVars, driver, uniqueVars, entryVars, data, csv, notices>>

ExpandMoreWhileReading ==
    /\ \/ pc = "expand" /\ Len(clicks) < Len(more_buttons)
       \/ pc = "s1" /\ Len(clicks) = Len(more_buttons) /\ clicks # <<>>
    /\ clicks' = Append(clicks, "clicked")
    /\ UNCHANGED <<sessionVars, fileVars, pc, driver, loaderVars, review_cards, more_buttons,
                   uniqueVars, entryVars, data, csv, notices>>

ExpandMoreAbortsOnFailure ==
    /\ pc = "expand"
    /\ Len(clicks) < Len(more_buttons)
    /\ clicks' = Append(clicks, more_buttons[Len(clicks) + 1])
    /\ IF more_buttons[Len(clicks) + 1] = "failed"
       THEN pc' = "crashed" /\ notices' = Append(notices, "exception")
       ELSE pc' = pc /\ notices' = notices
    /\ UNCHANGED <<sessionVars, fileVars, driver, loaderVars, review_cards, more_buttons,
                   uniqueVars, entryVars, data, csv>>

\* lines 151-156: click the next "More" button; a click that raises is
\* passed over
ExpandMore ==
    /\ pc = "expand"
    /\ Len(clicks) < Len(more_buttons)
    /\ clicks' = Append(clicks, more_buttons[Len(clicks) + 1])
    /\ UNCHANGED <<sessionVars, fileVars, pc, driver, loaderVars, review_cards, more_buttons,
                   uniqueVars, entryVars, data, csv, notices>>

\* line 151, no button left
ExpandDone ==
    /\ pc = "expand"
    /\ Len(clicks) = Len(more_buttons)
    /\ pc' = "dedup"
    /\ UNCHANGED <<sessionVars, fileVars, driver, loaderVars, pageVars, uniqueVars, entryVars,
                   data, csv, notices>>

----------------------------------------------------------------------------
(* Deduplication, lines 159-166.  The ordered dict is a sequence of        *)
(* [id, h]: h is the position in review_cards of the card stored.          *)

HasKey(acc, id) == \E k \in 1..Len(acc) : acc[k].id = id

InsertOverwrite(acc, id, h) ==
    IF HasKey(acc, id)
    THEN [k \in 1..Len(acc) |-> IF acc[k].id = id THEN [id |-> id, h |-> h]
                                 ELSE acc[k]]
    ELSE Append(acc, [id |-> id, h |-> h])

\* lines 163-164
InsertUnique(acc, id, h) ==
    IF HasKey(acc, id) THEN acc ELSE Append(acc, [id |-> id, h |-> h])

RECURSIVE DedupFrom(_, _, _)
DedupFrom(cards, h, acc) ==
    IF h > Len(cards) THEN acc
    ELSE IF cards[h].id = IdError THEN DedupFrom(cards, h + 1, acc)
    ELSE DedupFrom(cards, h + 1, InsertUnique(acc, cards[h].id, h))

Deduplicate ==
    /\ pc = "dedup"
    /\ unique_reviews' = DedupFrom(review_cards, 1, <<>>)
    /\ unique_bound' = TRUE
    /\ pc' = "loop"
    /\ UNCHANGED <<sessionVars, fileVars, driver, loaderVars, pageVars, entryVars, data, csv,
                   notices>>

----------------------------------------------------------------------------
(* Helpers of the text strategies *)

RECURSIVE Join(_, _)
Join(strs, sep) ==
    IF strs = <<>> THEN ""
    ELSE IF Len(strs) = 1 THEN strs[1]
    ELSE strs[1] \o sep \o Join(Tail(strs), sep)

\* re.sub(r"[^a-zA-Z0-9\s.,!?']", "", text), line 321
IsKeptByNoiseFilter(c) ==
    IsAsciiLetter(c) \/ IsDigit(c) \/ IsSpace(c) \/ InStr(c, ".,!?'")

RECURSIVE KeepNoiseChars(_)
KeepNoiseChars(s) ==
    IF s = "" THEN ""
    ELSE (IF IsKeptByNoiseFilter(Char(s, 1)) THEN Char(s, 1) ELSE "")
         \o KeepNoiseChars(SubSeq(s, 2, Len(s)))

\* len(s.split()), line 322
WordCount(s) ==
    Cardinality({k \in 1..Len(s) :
                   /\ ~IsSpace(Char(s, k))
                   /\ (k = 1 \/ IsSpace(Char(s, k - 1)))})

\* sum(c.islower() for c in s), line 323
LowerCount(s) == Cardinality({k \in 1..Len(s) : IsLower(Char(s, k))})

\* line 326
junk_keywords == <<"^", "|", "New", "Updated", "stars", "reviews">>

IsNoiseOverLength(t) ==
    LET cleaned_text == KeepNoiseChars(t)
    IN  \/ WordCount(cleaned_text) < 5
        \/ 20 * LowerCount(cleaned_text) < Len(cleaned_text)
        \/ \E k \in 1..Len(junk_keywords) : Contains(t, junk_keywords[k])

\* lines 321-329: TRUE when the structural candidate is thrown away.
\* lowercase / (len + 1) < 0.05 is 20 * lowercase < len + 1.
IsNoise(t) ==
    LET cleaned_text == KeepNoiseChars(t)
    IN  \/ WordCount(cleaned_text) < 5
        \/ 20 * LowerCount(cleaned_text) < Len(cleaned_text) + 1
        \/ \E k \in 1..Len(junk_keywords) : Contains(t, junk_keywords[k])

\* the texts a comprehension keeps: non-blank, class without "RfDO5c"
\* (lines 281-282 and 339-340)
RECURSIVE UntaggedTexts(_)
UntaggedTexts(spans) ==
    IF spans = <<>> THEN <<>>
    ELSE (IF Strip(spans[1].text) # "" /\ ~Contains(spans[1].cls, "RfDO5c")
          THEN <<spans[1].text>> ELSE <<>>)
         \o UntaggedTexts(Tail(spans))

RECURSIVE StripAll(_)
StripAll(strs) ==
    IF strs = <<>> THEN <<>> ELSE <<Strip(strs[1])>> \o StripAll(Tail(strs))

RECURSIVE NotOwner(_)
NotOwner(spans) ==
    IF spans = <<>> THEN <<>>
    ELSE (IF spans[1].owner THEN <<>> ELSE <<spans[1]>>)
         \o NotOwner(Tail(spans))

PrimaryCandidateFirstSpan(card) ==
    IF card.wi = <<>> THEN "" ELSE card.wi[1].text

\* lines 223-231: text of the first span that is not under the owner block
PrimaryCandidate(card) ==
    LET own == NotOwner(card.wi) IN IF own = <<>> THEN "" ELSE own[1].text

\* lines 265-279: the document's tagged-text nodes whose nearest card
\* carries review_id and that are not under an owner block
RECURSIVE FallbackSpans(_, _)
FallbackSpans(cards, review_id) ==
    IF cards = <<>> THEN <<>>
    ELSE (IF cards[1].id = review_id THEN NotOwner(cards[1].rfdo) ELSE <<>>)
         \o FallbackSpans(Tail(cards), review_id)

\* lines 280-283
RfdoGlobalText(cards, review_id) ==
    Join(UntaggedTexts(FallbackSpans(cards, review_id)), " ")

\* lines 297-312: own texts of the descendants outside the owner block
RECURSIVE FoundTexts(_)
FoundTexts(elems) ==
    IF elems = <<>> THEN <<>>
    ELSE (IF ~elems[1].owner /\ Strip(elems[1].text) # ""
          THEN <<Strip(elems[1].text)>> ELSE <<>>)
         \o FoundTexts(Tail(elems))

\* lines 336-341
NarrowTexts(card) == StripAll(UntaggedTexts(card.rfdo))

----------------------------------------------------------------------------
(* The record loop, lines 213-461 *)

Card == review_cards[unique_reviews[i + 1].h]

Crash ==
    /\ pc' = "crashed"
    /\ notices' = Append(notices, "exception")

\* line 214 with unique_reviews unbound: NameError
LoopUnbound ==
    /\ pc = "loop"
    /\ ~unique_bound
    /\ Crash
    /\ UNCHANGED <<sessionVars, fileVars, driver, loaderVars, pageVars, uniqueVars, entryVars,
                   data, csv>>

\* lines 214-220: next card; reviewer and rating are looked up unguarded
BeginEntry ==
    /\ pc = "loop"
    /\ unique_bound
    /\ i < Len(unique_reviews)
    /\ IF Card.reviewer = NoElement \/ Card.rating = NoElement
       THEN /\ Crash
            /\ UNCHANGED <<sessionVars, fileVars, reviewer, rating>>
       ELSE /\ pc' = "s1"
            /\ reviewer' = Card.reviewer
            /\ rating' = Card.rating
            /\ notices' = notices
    /\ text' = ""
    /\ source' = "none"
    /\ tried' = <<>>
    /\ UNCHANGED <<sessionVars, fileVars, driver, loaderVars, pageVars, uniqueVars, i, data,
                   csv>>

AfterPrimaryAlwaysFallsBack(idx, t) ==
    IF idx < IndexCutoff THEN "fields" ELSE "s2"

\* lines 221, 241, 262: where main() goes after the primary scan
AfterPrimary(idx, t) ==
    IF idx < IndexCutoff THEN "fields"
    ELSE IF t = "" THEN "s2" ELSE "fields"

\* lines 221-260: primary span, validated (the two branches are the same)
Strategy1 ==
    /\ pc = "s1"
    /\ LET temp_text == PrimaryCandidate(Card)
       IN  IF is_valid_comment(temp_text)
           THEN /\ text' = temp_text
                /\ source' = "wiI7pd"
                /\ pc' = AfterPrimary(i, temp_text)
           ELSE /\ text' = ""
                /\ source' = "none"
                /\ pc' = AfterPrimary(i, "")
    /\ tried' = Append(tried, 1)
    /\ UNCHANGED <<sessionVars, fileVars, driver, loaderVars, pageVars, uniqueVars, i,
                   reviewer, rating, data, csv, notices>>

\* lines 262-289: tagged global scan
Strategy2 ==
    /\ pc = "s2"
    /\ text' = RfdoGlobalText(review_cards, unique_reviews[i + 1].id)
    /\ source' = "rfdo_global"
    /\ pc' = IF text' = "" THEN "s3" ELSE "fields"
    /\ tried' = Append(tried, 2)
    /\ UNCHANGED <<sessionVars, fileVars, driver, loaderVars, pageVars, uniqueVars, i,
                   reviewer, rating, data, csv, notices>>

\* lines 292-332: structural scan and noise filter
Strategy3 ==
    /\ pc = "s3"
    /\ LET found_texts == FoundTexts(Card.elems)
           joined == Join(found_texts, " ")
       IN  IF found_texts = <<>>
           THEN text' = "" /\ source' = source
           ELSE /\ text' = IF IsNoise(joined) THEN "" ELSE joined
                /\ source' = "structural"
    /\ pc' = IF text' = "" THEN "s4" ELSE "fields"
    /\ tried' = Append(tried, 3)
    /\ UNCHANGED <<sessionVars, fileVars, driver, loaderVars, pageVars, uniqueVars, i,
                   reviewer, rating, data, csv, notices>>

\* lines 334-346: narrow fallback; a missing marker raises and is passed
Strategy4 ==
    /\ pc = "s4"
    /\ LET extracted == IF Card.jslog THEN NarrowTexts(Card) ELSE <<>>
       IN  IF extracted # <<>>
           THEN text' = Join(extracted, " ") /\ source' = "jslog127691"
           ELSE text' = text /\ source' = source
    /\ pc' = "fields"
    /\ tried' = Append(tried, 4)
    /\ UNCHANGED <<sessionVars, fileVars, driver, loaderVars, pageVars, uniqueVars, i,
                   reviewer, rating, data, csv, notices>>

----------------------------------------------------------------------------
(* Fields and record, lines 359-461 *)

RECURSIVE Digits(_)
Digits(n) ==
    IF n < 10 THEN Char(DigitChars, n + 1)
    ELSE Digits(n \div 10) \o Char(DigitChars, (n % 10) + 1)

\* f"{n:03d}"
Pad3(n) ==
    LET d == Digits(n)
    IN  IF Len(d) = 1 THEN "00" \o d ELSE IF Len(d) = 2 THEN "0" \o d ELSE d

ReviewUIDFromZero(count) == "R" \o Pad3(count)

\* line 444, count = len(data)
ReviewUID(count) == "R" \o Pad3(count + 1)

HasDigit(s) == \E k \in 1..Len(s) : IsDigit(Char(s, k))

\* line 362: int(re.search(r'\d', rating).group())
FirstDigit(s) ==
    LET k == CHOOSE k \in 1..Len(s) :
                 /\ IsDigit(Char(s, k))
                 /\ \A m \in 1..(k - 1) : ~IsDigit(Char(s, m))
    IN  (CHOOSE d \in 1..10 : Char(DigitChars, d) = Char(s, k)) - 1

\* the result of an expression that raises
Raised == <<>>

ParsedRatingDefaultsToZero(label) ==
    IF label = NoneAttr \/ ~HasDigit(label) THEN <<0>>
    ELSE <<FirstDigit(label)>>

\* line 362: <<numeric_rating>>, or Raised when the label is None or has
\* no digit
ParsedRating(label) ==
    IF label = NoneAttr \/ ~HasDigit(label) THEN Raised
    ELSE <<FirstDigit(label)>>

\* the character at position k, "" past the end
CharAt(s, k) == IF k \in 1..Len(s) THEN Char(s, k) ELSE ""

DigitValue(c) == (CHOOSE d \in 1..10 : Char(DigitChars, d) = c) - 1

\* int() of a string of digits
RECURSIVE ParseInt(_)
ParseInt(s) ==
    IF s = "" THEN 0
    ELSE 10 * ParseInt(SubSeq(s, 1, Len(s) - 1)) + DigitValue(Char(s, Len(s)))

\* the last position of the run of digits that starts at position k
RECURSIVE DigitRunEnd(_, _)
DigitRunEnd(s, k) ==
    IF IsDigit(CharAt(s, k + 1)) THEN DigitRunEnd(s, k + 1) ELSE k

\* lines 179-182: int(re.search(r'\d+', date_text).group())
FirstNumber(s) ==
    LET k == CHOOSE k \in 1..Len(s) :
                 /\ IsDigit(Char(s, k))
                 /\ \A m \in 1..(k - 1) : ~IsDigit(Char(s, m))
    IN  ParseInt(SubSeq(s, k, DigitRunEnd(s, k)))

\* a date is written as the number of days it lies before today;
\* NoDate is the "" that parse_relative_date returns
NoDate == <<>>
TodayMinus(days) == <<days>>

ParseDateFirstDigit(date_text) ==
    IF ~HasDigit(date_text) THEN NoDate
    ELSE LET num == FirstDigit(date_text)
         IN  IF Contains(date_text, "day") THEN TodayMinus(num)
             ELSE IF Contains(date_text, "week") THEN TodayMinus(7 * num)
             ELSE IF Contains(date_text, "month") THEN TodayMinus(30 * num)
             ELSE IF Contains(date_text, "year") THEN TodayMinus(365 * num)
             ELSE NoDate

\* lines 177-193
parse_relative_date(date_text) ==
    IF ~HasDigit(date_text) THEN NoDate
    ELSE LET num == FirstNumber(date_text)
         IN  IF Contains(date_text, "day") THEN TodayMinus(num)
             ELSE IF Contains(date_text, "week") THEN TodayMinus(7 * num)
             ELSE IF Contains(date_text, "month") THEN TodayMinus(30 * num)
             ELSE IF Contains(date_text, "year") THEN TodayMinus(365 * num)
             ELSE NoDate

\* bool(parsed_date), line 450
DateParseSuccess(parsed_date) == parsed_date # NoDate


(* Images, lines 368-394 *)

IsQuote(c) == c = "\"" \/ c = "'"

\* [^"')] of line 381
IsUrlChar(c) == c # "" /\ ~IsQuote(c) /\ c # ")"

\* the last position of the run of URL characters that starts at k
RECURSIVE UrlRunEnd(_, _)
UrlRunEnd(s, k) == IF IsUrlChar(CharAt(s, k + 1)) THEN UrlRunEnd(s, k + 1) ELSE k

\* line 381: group 1 of a match of url\(["']?(https[^"')]+)["']?\) that
\* starts at position k, "" when there is none
UrlMatchAt(s, k) ==
    IF k + 3 <= Len(s) /\ SubSeq(s, k, k + 3) = "url("
    THEN LET b == IF IsQuote(CharAt(s, k + 4)) THEN k + 5 ELSE k + 4
         IN  IF /\ b + 4 <= Len(s)
                /\ SubSeq(s, b, b + 4) = "https"
                /\ IsUrlChar(CharAt(s, b + 5))
             THEN LET e == UrlRunEnd(s, b + 5)
                      c == IF IsQuote(CharAt(s, e + 1)) THEN e + 2 ELSE e + 1
                  IN  IF CharAt(s, c) = ")" THEN SubSeq(s, b, e) ELSE ""
             ELSE ""
    ELSE ""

\* lines 374-383: img_url of a style attribute
StyleUrl(style_attr) ==
    LET K == {k \in 1..Len(style_attr) : UrlMatchAt(style_attr, k) # ""}
    IN  IF ~Contains(style_attr, "background-image") \/ K = {} THEN ""
        ELSE UrlMatchAt(style_attr, CHOOSE k \in K : \A m \in K : k <= m)

\* line 384
IsAcceptedUrl(img_url) ==
    img_url # "" /\ Contains(img_url, "googleusercontent")

\* the name as it would be if the image index were left out
ImageFilenameEntryOnly(entry, idx) ==
    "img_" \o Pad3(entry + 1) \o ".jpg"

\* line 385, i the entry index and idx the image index
ImageFilename(entry, idx) ==
    "img_" \o Pad3(entry + 1) \o "_" \o Digits(idx + 1) \o ".jpg"

\* the loop as it would be if a failed fetch ended it
RECURSIVE ImageLoopStopsAtFailure(_, _, _, _)
ImageLoopStopsAtFailure(image_elements, idx, entry, acc) ==
    IF idx >= Len(image_elements) THEN acc
    ELSE LET img_el == image_elements[idx + 1]
             img_url == StyleUrl(img_el.style)
         IN  IF IsAcceptedUrl(img_url)
             THEN IF img_el.ok
                  THEN ImageLoopStopsAtFailure(image_elements, idx + 1, entry,
                           [fetched |-> Append(acc.fetched, img_url),
                            image_files |->
                                Append(acc.image_files,
                                       ImageFilename(entry, idx))])
                  ELSE [fetched |-> Append(acc.fetched, img_url),
                        image_files |-> acc.image_files]
             ELSE ImageLoopStopsAtFailure(image_elements, idx + 1, entry, acc)

\* lines 371-394, from image idx on: the URLs handed to urlretrieve and
\* the filenames listed; a fetch that raises is passed over
RECURSIVE ImageLoop(_, _, _, _)
ImageLoop(image_elements, idx, entry, acc) ==
    IF idx >= Len(image_elements) THEN acc
    ELSE LET img_el == image_elements[idx + 1]
             img_url == StyleUrl(img_el.style)
         IN  IF IsAcceptedUrl(img_url)
             THEN ImageLoop(image_elements, idx + 1, entry,
                      [fetched |-> Append(acc.fetched, img_url),
                       image_files |->
                           IF img_el.ok
                           THEN Append(acc.image_files,
                                       ImageFilename(entry, idx))
                           ELSE acc.image_files])
             ELSE ImageLoop(image_elements, idx + 1, entry, acc)

NoImages == [fetched |-> <<>>, image_files |-> <<>>]

(* Tags, lines 407-433 *)

\* line 417
tag_labels == <<"services", "positive", "negative", "price">>

IsTagLabel(t) == \E k \in 1..Len(tag_labels) : tag_labels[k] = t

\* lines 407-410
NoTags ==
    [services |-> <<>>, positive |-> <<>>, negative |-> <<>>, price |-> <<>>]

RECURSIVE TagLoopKeepsLabel(_, _, _)
TagLoopKeepsLabel(tag_blocks, current_label, buckets) ==
    IF tag_blocks = <<>> THEN buckets
    ELSE LET tag_text == Strip(tag_blocks[1].text)
             label == IF IsTagLabel(StrLower(tag_text))
                      THEN StrLower(tag_text) ELSE current_label
         IN  IF label # ""
             THEN TagLoopKeepsLabel(Tail(tag_blocks), label,
                      [buckets EXCEPT ![label] = Append(@, tag_text)])
             ELSE TagLoopKeepsLabel(Tail(tag_blocks), label, buckets)

\* lines 415-431
RECURSIVE TagLoop(_, _, _)
TagLoop(tag_blocks, current_label, buckets) ==
    IF tag_blocks = <<>> THEN buckets
    ELSE LET tag_text == Strip(tag_blocks[1].text)
         IN  IF IsTagLabel(StrLower(tag_text))
             THEN TagLoop(Tail(tag_blocks), StrLower(tag_text), buckets)
             ELSE IF current_label # ""
             THEN TagLoop(Tail(tag_blocks), current_label,
                      [buckets EXCEPT ![current_label] = Append(@, tag_text)])
             ELSE TagLoop(Tail(tag_blocks), current_label, buckets)

(* Like count and owner reply, lines 396-441 *)

\* str.isdigit(), line 401
IsAllDigits(s) == s # "" /\ \A k \in 1..Len(s) : IsDigit(Char(s, k))

LikeCountFirstNumber(like_span) ==
    IF like_span = NoElement \/ ~HasDigit(like_span) THEN 0
    ELSE FirstNumber(like_span)

\* lines 397-404: a missing node raises and is passed over
LikeCount(like_span) ==
    IF like_span = NoElement THEN 0
    ELSE LET like_text == Strip(like_span)
         IN  IF IsAllDigits(like_text) THEN ParseInt(like_text) ELSE 0

\* lines 436-441: whether the card holds an owner-reply block
OwnerResponded(card) ==
    \/ \E k \in 1..Len(card.wi) : card.wi[k].owner
    \/ \E k \in 1..Len(card.rfdo) : card.rfdo[k].owner
    \/ \E k \in 1..Len(card.elems) : card.elems[k].owner

\* lines 359-461: the date lookup and the rating parse are unguarded
ExtractFields ==
    /\ pc = "fields"
    /\ IF Card.date = NoElement \/ ParsedRating(rating) = Raised
       THEN /\ Crash
            /\ UNCHANGED <<sessionVars, i, data>>
       ELSE /\ LET parsed_date == parse_relative_date(Card.date)
                   img == ImageLoop(Card.images, 0, i, NoImages)
                   tags == TagLoop(Card.rfdo, "", NoTags)
               IN data' = Append(data,
                   [ReviewUID |-> ReviewUID(Len(data)),
                    Reviewer |-> reviewer,
                    Rating |-> rating,
                    RatingValue |-> ParsedRating(rating)[1],
                    DateRaw |-> Card.date,
                    DateParsed |-> parsed_date,
                    DateParseSuccess |-> DateParseSuccess(parsed_date),
                    Review |-> clean_final_text(text),
                    ImageCount |-> Len(img.image_files),
                    ImageFiles |-> Join(img.image_files, ", "),
                    Services |-> Join(tags.services, ", "),
                    PositiveTags |-> Join(tags.positive, ", "),
                    NegativeTags |-> Join(tags.negative, ", "),
                    PriceTags |-> Join(tags.price, ", "),
                    LikeCount |-> LikeCount(Card.likes),
                    OwnerResponded |-> OwnerResponded(Card),
                    fetched |-> img.fetched,
                    id |-> unique_reviews[i + 1].id,
                    h |-> unique_reviews[i + 1].h,
                    index |-> i,
                    raw |-> text,
                    source |-> source,
                    tried |-> tried])
            /\ i' = i + 1
            /\ pc' = "loop"
            /\ notices' = notices
    /\ debug_file' = (debug_mode \/ debug_file)
    /\ uploads' = uploads
    /\ UNCHANGED <<sessionVars, driver, loaderVars, pageVars, uniqueVars,
                   reviewer, rating, text, source, tried, csv>>

\* line 214, no card left
LoopDone ==
    /\ pc = "loop"
    /\ unique_bound
    /\ i >= Len(unique_reviews)
    /\ pc' = "export"
    /\ UNCHANGED <<sessionVars, fileVars, driver, loaderVars, pageVars, uniqueVars, entryVars,
                   data, csv, notices>>

ExportAlwaysWrites ==
    /\ pc = "export"
    /\ csv' = data
    /\ pc' = "upload"
    /\ UNCHANGED <<sessionVars, fileVars, driver, loaderVars, pageVars, uniqueVars, entryVars,
                   data, notices>>

\* lines 464-471: write the CSV, or warn and return
Export ==
    /\ pc = "export"
    /\ IF data # <<>>
       THEN csv' = data /\ pc' = "upload" /\ notices' = notices
       ELSE /\ csv' = csv
            /\ pc' = "returned"
            /\ notices' = Append(notices, "no data")
    /\ UNCHANGED <<sessionVars, fileVars, driver, loaderVars, pageVars, uniqueVars, entryVars,
                   data>>

\* lines 387, 485: the image folder exists once a fetch was attempted
ImageFolderExists ==
    \E k \in 1..Len(data) : data[k].fetched # <<>>

\* lines 498-524: the folders uploaded to, by the zip_and_send option
ArtifactUploads(zip_and_send) ==
    IF zip_and_send THEN <<"Completed Reports">>
    ELSE IF ImageFolderExists THEN <<"CSV", "Images">>
    ELSE <<"CSV">>

\* lines 473-531: zip the images, close the browser, upload the artifacts,
\* then upload and remove the debug log if there is one
\* (upload_file_to_drive comes from drive_uploader, which is not among the
\* sources; a call to it is taken to return)
Upload ==
    /\ pc = "upload"
    /\ driver' = "quit"
    /\ \E zip_and_send \in BOOLEAN :
          uploads' = uploads \o ArtifactUploads(zip_and_send)
                        \o (IF debug_file THEN <<"Debug Logs">> ELSE <<>>)
    /\ debug_file' = FALSE
    /\ pc' = "done"
    /\ UNCHANGED <<sessionVars, loaderVars, pageVars, uniqueVars, entryVars,
                   data, csv, notices>>

----------------------------------------------------------------------------

Next ==
    \/ Launch
    \/ WaitReady
    \/ LocateContainer
    \/ ScrollRound
    \/ ScrollExit
    \/ FindCards
    \/ ExpandMore
    \/ ExpandDone
    \/ Deduplicate
    \/ LoopUnbound
    \/ BeginEntry
    \/ Strategy1
    \/ Strategy2
    \/ Strategy3
    \/ Strategy4
    \/ ExtractFields
    \/ LoopDone
    \/ Export
    \/ Upload

Spec == Init /\ [][Next]_vars

----------------------------------------------------------------------------
(* Version 1.5 (src/Echo/echo_Google_Business_HTML_v1.5.py).  Its main()  *)
(* differs from the one above in the guard of the scraper, in the end of  *)
(* the run, and in being run again by every rerun of the script within    *)
(* a session; the steps between are the same code.                        *)

\* v1.5 lines 65-72: the checkbox registers its key; the scraper runs when
\* a URL is given and the session holds no "scraped" key
Launch15 ==
    /\ pc = "idle"
    /\ session_state' = session_state \cup {"headless_mode"}
    /\ \E url \in BOOLEAN :
          IF url /\ "scraped" \notin session_state
          THEN pc' = "loading" /\ driver' = "open" /\ launches' = launches + 1
          ELSE pc' = "returned" /\ driver' = driver /\ launches' = launches
    /\ UNCHANGED <<fileVars, loaderVars, pageVars, uniqueVars, entryVars,
                   data, csv, notices>>

\* v1.5 lines 417-434: write the CSV or warn, then close the browser
Export15 ==
    /\ pc = "export"
    /\ IF data # <<>>
       THEN csv' = data /\ notices' = notices
       ELSE csv' = csv /\ notices' = Append(notices, "no data")
    /\ driver' = "quit"
    /\ pc' = "done"
    /\ UNCHANGED <<sessionVars, fileVars, loaderVars, pageVars, uniqueVars, entryVars,
                   data>>

\* the script is run again in the same session: main() starts over with
\* fresh locals and the session state as it was left
Rerun15 ==
    /\ pc \in {"done", "returned", "crashed"}
    /\ launches < MaxRuns
    /\ pc' = "idle"
    /\ driver' = "none"
    /\ scroll_attempts' = 0
    /\ last_review_count' = 0
    /\ stable_scrolls' = 0
    /\ grew' = 0
    /\ steady' = TRUE
    /\ review_cards' = <<>>
    /\ more_buttons' = <<>>
    /\ clicks' = <<>>
    /\ unique_reviews' = <<>>
    /\ unique_bound' = FALSE
    /\ i' = 0
    /\ reviewer' = ""
    /\ rating' = ""
    /\ text' = ""
    /\ source' = "none"
    /\ tried' = <<>>
    /\ data' = <<>>
    /\ csv' = NoFile
    /\ notices' = <<>>
    /\ UNCHANGED <<sessionVars, fileVars>>

Next15 ==
    \/ Launch15
    \/ WaitReady
    \/ LocateContainer
    \/ ScrollRound
    \/ ScrollExit
    \/ FindCards
    \/ ExpandMore
    \/ ExpandDone
    \/ Deduplicate
    \/ LoopUnbound
    \/ BeginEntry
    \/ Strategy1
    \/ Strategy2
    \/ Strategy3
    \/ Strategy4
    \/ ExtractFields
    \/ LoopDone
    \/ Export15
    \/ Rerun15

Spec15 == Init /\ [][Next15]_vars

\* main() is sequential and the settle delay of a round is bounded (line
\* 135): a round that can run does run, and so does the exit of the loop
FairSpec == Spec /\ WF_vars(ScrollRound) /\ WF_vars(ScrollExit)

----------------------------------------------------------------------------
(* Properties *)

Records == {data[k] : k \in 1..Len(data)}

\* C1: the scroll loop terminates; a round runs only while the stability
\* counter is below 3 and the attempt counter below 60; the loop is left
\* at the first loop test at which either limit is reached, and only
\* then; the attempt counter never exceeds max_scrolls.
C1_LoaderStopsAtFirstLimit ==
    /\ [](scroll_attempts <= max_scrolls /\ stable_scrolls <= StabilityRounds)
    /\ [][scroll_attempts' = scroll_attempts + 1
            => (scroll_attempts < max_scrolls
                /\ stable_scrolls < StabilityRounds)]_vars
    /\ [][(pc = "scroll" /\ (stable_scrolls >= StabilityRounds
                              \/ scroll_attempts >= max_scrolls))
            => pc' = "scrolled"]_vars
    /\ [](pc = "scrolled" => (stable_scrolls = StabilityRounds
                              \/ scroll_attempts = max_scrolls))
    /\ ((pc = "scroll") ~> (pc = "scrolled"))

\* C1 witness: the loop left at the attempt cap with the count still moving
C1_Witness ==
    /\ pc = "scrolled"
    /\ scroll_attempts = max_scrolls
    /\ stable_scrolls < StabilityRounds

\* C2: when the count grew in each of rounds 1..k and never changed
\* afterwards, and k + 3 <= max_scrolls, the loop is left after exactly
\* k + 3 rounds.
C2_GrowthThenStable ==
    (pc = "scrolled" /\ steady /\ grew + StabilityRounds <= max_scrolls)
        => scroll_attempts = grew + StabilityRounds

\* C2 witness: four growth rounds, three stable rounds, left at round 7
C2_Witness ==
    /\ pc = "scrolled"
    /\ steady
    /\ grew = 4
    /\ scroll_attempts = 7
    /\ scroll_attempts < max_scrolls

\* C3: after collection no two kept entries share an id, the entry kept
\* for an id is the first card enumerated with it, the kept entries are
\* in first-seen order, and every readable id is kept.
C3_UniqueFirstSeen ==
    unique_bound =>
        /\ \A a, b \in 1..Len(unique_reviews) :
              a < b => /\ unique_reviews[a].id # unique_reviews[b].id
                       /\ unique_reviews[a].h < unique_reviews[b].h
        /\ \A a \in 1..Len(unique_reviews) :
              /\ unique_reviews[a].h \in 1..Len(review_cards)
              /\ review_cards[unique_reviews[a].h].id = unique_reviews[a].id
              /\ \A h \in 1..(unique_reviews[a].h - 1) :
                    review_cards[h].id # unique_reviews[a].id
        /\ \A h \in 1..Len(review_cards) :
              review_cards[h].id # IdError
                  => \E a \in 1..Len(unique_reviews) :
                        unique_reviews[a].id = review_cards[h].id

\* C3 witness: three cards, the third repeating the id of the first
C3_Witness ==
    /\ unique_bound
    /\ Len(review_cards) = 3
    /\ review_cards[1].id = review_cards[3].id
    /\ review_cards[2].id \notin {IdError, review_cards[1].id}
    /\ Len(unique_reviews) = 2

ReachedExport ==
    \/ pc \in {"export", "upload", "done"}
    \/ pc = "returned" /\ unique_bound

\* C4: on a run that reaches export there is one record per unique entry,
\* record k is built from the k-th first-seen entry, and its uid is the
\* number k written R001, R002, ...
C4_OneRecordPerEntry ==
    ReachedExport =>
        /\ Len(data) = Len(unique_reviews)
        /\ \A k \in 1..Len(data) :
              /\ data[k].h = unique_reviews[k].h
              /\ data[k].id = unique_reviews[k].id
              /\ data[k].ReviewUID = "R" \o Pad3(k)
        /\ (Len(data) >= 1 => data[1].ReviewUID = "R001")
        /\ (Len(data) >= 30 => data[30].ReviewUID = "R030")
        /\ \A k, m \in 1..Len(data) :
              k # m => data[k].ReviewUID # data[m].ReviewUID
        /\ (csv # NoFile => csv = data)

\* C4 witness: a finished run over three cards, one of them a duplicate
C4_Witness ==
    /\ pc = "done"
    /\ Len(review_cards) = 3
    /\ Len(data) = 2
    /\ data[2].h = 3
    /\ data[2].ReviewUID = "R002"

\* C5: the strategies run in the order 1, 2, 3, 4, a later one only when
\* the text is empty after the earlier ones; when the primary candidate is
\* valid only strategy 1 runs and the provenance is the primary strategy.
C5_StrategyOrder ==
    /\ [][(tried' # tried /\ tried' # <<>>)
            => /\ tried' = Append(tried, Len(tried) + 1)
               /\ (tried # <<>> => text = "")]_vars
    /\ [](\A r \in Records :
            is_valid_comment(PrimaryCandidate(review_cards[r.h]))
                => r.tried = <<1>> /\ r.source = "wiI7pd")

\* C5 witness: past the index cutoff, a valid primary candidate and no
\* other strategy run
C5_Witness ==
    \E r \in Records :
        /\ r.index >= IndexCutoff
        /\ is_valid_comment(PrimaryCandidate(review_cards[r.h]))
        /\ r.tried = <<1>>
        /\ r.source = "wiI7pd"

\* C6: every non-empty review text of a record satisfies
\* is_valid_comment, whichever strategy produced it.
C6_RecordTextValid ==
    \A r \in Records : r.Review # "" => is_valid_comment(r.Review)

\* C7: a record's review text is empty only if all four strategies were
\* run on its entry and none of their candidates is valid.
C7_EmptyOnlyAfterFullChain ==
    \A r \in Records :
        r.Review = ""
            => /\ r.tried = <<1, 2, 3, 4>>
               /\ ~is_valid_comment(PrimaryCandidate(review_cards[r.h]))
               /\ ~is_valid_comment(RfdoGlobalText(review_cards, r.id))
               /\ ~is_valid_comment(
                      Join(FoundTexts(review_cards[r.h].elems), " "))
               /\ ~is_valid_comment(Join(NarrowTexts(review_cards[r.h]), " "))

SameContent(c1, c2) ==
    [c1 EXCEPT !.id = ReviewId(0)] = [c2 EXCEPT !.id = ReviewId(0)]

\* C8: two entries of one run with identical content get the same text
\* and the same provenance, whatever their positions.
C8_PositionIndependent ==
    \A r1, r2 \in Records :
        SameContent(review_cards[r1.h], review_cards[r2.h])
            => r1.Review = r2.Review /\ r1.source = r2.source

\* C9: no record's review text contains the owner-reply phrase in any
\* letter case; a text that contains it is stored as the empty string and
\* every other text is stored stripped.
C9_NoOwnerPhrase ==
    \A r \in Records :
        /\ ~Contains(StrLower(r.Review), OwnerPhrase)
        /\ r.Review = IF Contains(StrLower(r.raw), OwnerPhrase) THEN ""
                      ELSE Strip(r.raw)

\* C9 witness: a captured text with the phrase in mixed case, stored empty
C9_Witness ==
    \E r \in Records :
        /\ Contains(StrLower(r.raw), OwnerPhrase)
        /\ ~Contains(r.raw, OwnerPhrase)
        /\ r.Review = ""

\* C10: a failure on a single entry never aborts the run: once the entries
\* are collected, a run ends only with every entry processed and, when
\* there are records, with the records exported.
C10_EntryFailureContained ==
    (unique_bound /\ pc \in {"crashed", "returned", "done"})
        => /\ pc # "crashed"
           /\ Len(data) = Len(unique_reviews)
           /\ (data # <<>> => csv = data)

\* C11: every record's rating value is an integer in 1..5, whatever rating
\* label the page supplies, and it is the first digit of the label.
C11_RatingValueInRange ==
    \A r \in Records :
        /\ r.RatingValue \in 1..5
        /\ r.RatingValue = FirstDigit(r.Rating)

\* C12: no record is built for an entry whose rating label has no digit:
\* parsing the label fails and the record list is left as it was.
C12_NoRecordWithoutRating ==
    /\ [](\A r \in Records : HasDigit(r.Rating))
    /\ [][(pc = "fields" /\ ~HasDigit(rating))
            => (data' = data /\ pc' = "crashed")]_vars

\* C12 witness: the second entry's label has no digit; the parse has
\* failed and the list still holds the first entry's record only
C12_Witness ==
    /\ pc = "crashed"
    /\ tried # <<>>
    /\ rating = "Rated"
    /\ i = 1
    /\ Len(data) = 1

\* what the date labels of the pages are to give: the days before today,
\* or no date
DateExamples ==
    { <<"3 weeks ago", <<21>>>>, <<"2 days ago", <<2>>>>,
      <<"10 days ago", <<10>>>>, <<"4 months ago", <<120>>>>,
      <<"1 year ago", <<365>>>>, <<"today", <<>>>>, <<"a week ago", <<>>>>,
      <<"12 minutes ago", <<>>>> }

HasUnit(label) ==
    \E u \in {"day", "week", "month", "year"} : Contains(label, u)

\* C13: a label with an integer n and a unit gives today minus n, 7n, 30n
\* or 365n days and a true success flag; a label without an integer or
\* without a unit gives no date and a false flag; the flag is true exactly
\* when there is a date.
C13_RelativeDate ==
    \A r \in Records :
        /\ r.DateParseSuccess <=> (r.DateParsed # NoDate)
        /\ (~HasDigit(r.DateRaw) \/ ~HasUnit(r.DateRaw))
               => (r.DateParsed = NoDate /\ ~r.DateParseSuccess)
        /\ (HasDigit(r.DateRaw) /\ HasUnit(r.DateRaw))
               => (r.DateParsed # NoDate /\ r.DateParseSuccess)
        /\ \E e \in DateExamples :
              e[1] = r.DateRaw /\ e[2] = r.DateParsed

\* C13 witness: "10 days ago" parsed to ten days before today
C13_Witness ==
    \E r \in Records :
        /\ r.DateRaw = "10 days ago"
        /\ r.DateParsed = TodayMinus(10)
        /\ r.DateParseSuccess

NodeText(nodes, k) == Strip(nodes[k].text)

IsLabelNode(nodes, k) ==
    StrLower(NodeText(nodes, k)) \in {"services", "positive", "negative",
                                      "price"}

\* the label most recently seen before node k, "" when there is none
LastLabel(nodes, k) ==
    LET L == {j \in 1..(k - 1) : IsLabelNode(nodes, j)}
    IN  IF L = {} THEN ""
        ELSE StrLower(NodeText(nodes, CHOOSE j \in L : \A m \in L : m <= j))

\* the nodes from k on that are no label and follow the label `bucket`
RECURSIVE BucketOf(_, _, _)
BucketOf(nodes, bucket, k) ==
    IF k > Len(nodes) THEN <<>>
    ELSE (IF ~IsLabelNode(nodes, k) /\ LastLabel(nodes, k) = bucket
          THEN <<NodeText(nodes, k)>> ELSE <<>>)
         \o BucketOf(nodes, bucket, k + 1)

\* C14: a tagged-text node that is a label switches the bucket and is put
\* in none; every other node goes, in order, to the bucket of the most
\* recent label before it; nodes before the first label go to no bucket.
C14_TagBuckets ==
    \A r \in Records :
        LET nodes == review_cards[r.h].rfdo
        IN  /\ r.Services = Join(BucketOf(nodes, "services", 1), ", ")
            /\ r.PositiveTags = Join(BucketOf(nodes, "positive", 1), ", ")
            /\ r.NegativeTags = Join(BucketOf(nodes, "negative", 1), ", ")
            /\ r.PriceTags = Join(BucketOf(nodes, "price", 1), ", ")
            /\ (Len(nodes) = 5 /\ nodes[1].text = "Services")
                   => /\ r.Services = "Delivery"
                      /\ r.PositiveTags = "Fast, Friendly"
                      /\ r.NegativeTags = ""
                      /\ r.PriceTags = ""

\* C14 witness: a node before the first label dropped, labels in mixed
\* case and with blanks, a bucket switched back to and a bucket filled twice
C14_Witness ==
    \E r \in Records :
        /\ Len(review_cards[r.h].rfdo) = 9
        /\ review_cards[r.h].rfdo[1].text = "Cozy"
        /\ r.PriceTags = "Cheap, Fair"
        /\ r.NegativeTags = "Slow"
        /\ r.Services = "Takeaway"
        /\ r.PositiveTags = ""

\* C15: at most one image per entry is fetched and listed.
C15_FirstImageOnly ==
    \A r \in Records : r.ImageCount <= 1 /\ Len(r.fetched) <= 1

\* the host of an https URL: what stands between "https://" and the next
\* "/", "?" or "#"
RECURSIVE HostEnd(_, _)
HostEnd(url, k) ==
    IF k >= Len(url) \/ InStr(Char(url, k + 1), "/?#") THEN k
    ELSE HostEnd(url, k + 1)

UrlHost(url) == SubSeq(url, 9, HostEnd(url, 8))

\* C16: every URL fetched has the accepted image-hosting domain as its
\* host.
C16_AcceptedHostOnly ==
    \A r \in Records :
        \A k \in 1..Len(r.fetched) :
            Contains(UrlHost(r.fetched[k]), "googleusercontent")

InNotices(n) == \E k \in 1..Len(notices) : notices[k] = n

\* C17: when the scroll container is not found the failure is shown to the
\* operator, no card is enumerated, no button clicked, no entry extracted,
\* no record built and no file written, and the run stops there.
C17_ContainerNotFoundAborts ==
    /\ [](InNotices("scroll error")
            => /\ pc \in {"loop", "crashed"}
               /\ review_cards = <<>>
               /\ clicks = <<>>
               /\ ~unique_bound
               /\ i = 0
               /\ tried = <<>>
               /\ data = <<>>
               /\ csv = NoFile)
    /\ [][(pc = "ready" /\ pc' # "scroll") => InNotices("scroll error")']_vars
    /\ [][(pc = "loop" /\ InNotices("scroll error")) => pc' = "crashed"]_vars

\* C17 witness: the run stopped after the container was not found
C17_Witness ==
    /\ pc = "crashed"
    /\ InNotices("scroll error")
    /\ driver = "open"

\* C18: when the page-readiness wait times out the run returns at once:
\* nothing is scrolled, collected or extracted and no record, file or
\* upload is made.
C18_ReadinessTimeoutAborts ==
    /\ [](InNotices("load failed")
            => /\ pc = "returned"
               /\ driver = "quit"
               /\ scroll_attempts = 0
               /\ review_cards = <<>>
               /\ clicks = <<>>
               /\ ~unique_bound
               /\ i = 0
               /\ tried = <<>>
               /\ data = <<>>
               /\ csv = NoFile)
    /\ [][(pc = "loading" /\ pc' # "ready") => InNotices("load failed")']_vars

\* C18 witness: the run returned after the timeout
C18_Witness ==
    /\ pc = "returned"
    /\ notices = <<"load failed">>
    /\ driver = "quit"

\* C19: when collection ends with no entry the run ends without an error,
\* the operator is shown the no-data notice, and no file is written and
\* nothing uploaded.
C19_NoDataSignal ==
    /\ []((unique_bound /\ unique_reviews = <<>> /\ pc \notin {"loop", "export"})
            => /\ pc = "returned"
               /\ notices = <<"no data">>
               /\ data = <<>>
               /\ csv = NoFile)
    /\ [][(pc = "export" /\ data = <<>>)
            => (pc' = "returned" /\ InNotices("no data")' /\ csv' = NoFile)]_vars

\* C19 witness: cards were found, none with a readable id, and the run
\* ended with the no-data notice
C19_Witness ==
    /\ pc = "returned"
    /\ unique_bound
    /\ review_cards # <<>>
    /\ unique_reviews = <<>>
    /\ InNotices("no data")

ReadsBegun ==
    \/ pc \in {"s1", "s2", "s3", "s4", "fields"}
    \/ i > 0
    \/ tried # <<>>
    \/ data # <<>>

\* C20: every click on a "More" button happens after the scroll loop has
\* ended and before the first read of any entry; none happens once
\* extraction has begun.
C20_ExpandBeforeReads ==
    /\ [][(clicks' # clicks /\ clicks' # <<>>)
            => (pc = "expand" /\ ~ReadsBegun /\ ~ReadsBegun')]_vars
    /\ [](clicks # <<>>
            => pc \notin {"idle", "loading", "ready", "scroll", "scrolled"})
    /\ [](ReadsBegun => Len(clicks) = Len(more_buttons))

\* C20 witness: the fields of an entry being read after a click that failed
C20_Witness ==
    /\ pc = "fields"
    /\ clicks = <<"failed">>

LikeExamples ==
    { <<"12", 12>>, <<" 7 ", 7>>, <<"1.2K", 0>>, <<"", 0>>, <<"-3", 0>> }

\* C21: the like count is never negative; it is 0 when the entry has no
\* like-count node or the node's trimmed text is not all digits, and the
\* number shown otherwise; the lookup never ends the entry.
C21_LikeCount ==
    /\ \A r \in Records :
          LET like_span == review_cards[r.h].likes
          IN  /\ r.LikeCount >= 0
              /\ like_span = NoElement => r.LikeCount = 0
              /\ like_span # NoElement
                    => \E e \in LikeExamples :
                          e[1] = like_span /\ e[2] = r.LikeCount
    /\ (pc = "crashed" /\ unique_bound /\ tried # <<>>)
          => (Card.date = NoElement \/ ~HasDigit(rating))

\* C21 witness: a like count shown with blanks around it
C21_Witness ==
    \E r \in Records :
        review_cards[r.h].likes = " 7 " /\ r.LikeCount = 7

\* C22: a round whose count did not grow (equal or smaller) adds one to
\* the stability counter; only a round whose count grew sets it to zero.
C22_NoGrowthIsStable ==
    [][(pc = "scroll" /\ scroll_attempts' = scroll_attempts + 1)
         => stable_scrolls' = IF last_review_count' > last_review_count
                              THEN 0 ELSE stable_scrolls + 1]_vars

Ran(r, n) == \E k \in 1..Len(r.tried) : r.tried[k] = n

\* the non-blank texts of a sequence of nodes, in order
RECURSIVE TextsOf(_)
TextsOf(nodes) ==
    IF nodes = <<>> THEN <<>>
    ELSE (IF Strip(nodes[1].text) # "" THEN <<nodes[1].text>> ELSE <<>>)
         \o TextsOf(Tail(nodes))

\* C23: when strategy 2 runs, its candidate is the single-space join of
\* the texts of the document's tagged-text nodes that belong to the entry
\* and are not under an owner reply; when one of them has text, strategy
\* 2 yields that non-empty text.
C23_TaggedGlobalScan ==
    \A r \in Records :
        LET texts == TextsOf(FallbackSpans(review_cards, r.id))
        IN  (Ran(r, 2) /\ texts # <<>>)
                => /\ r.raw = Join(texts, " ")
                   /\ r.raw # ""
                   /\ r.source = "rfdo_global"
                   /\ r.tried = <<1, 2>>

\* C24: when strategy 4 runs on an entry that has the narrow marker with
\* tagged-text children holding text, it yields the join of their texts
\* and the provenance is the narrow fallback.
C24_NarrowFallback ==
    \A r \in Records :
        LET card == review_cards[r.h]
            texts == StripAll(TextsOf(card.rfdo))
        IN  (Ran(r, 4) /\ card.jslog /\ texts # <<>>)
                => /\ r.raw = Join(texts, " ")
                   /\ r.source = "jslog127691"

\* C25: the provenance is "none" exactly when the captured text is empty,
\* and otherwise names the strategy whose candidate the text is.
C25_ProvenanceNamesStrategy ==
    \A r \in Records :
        LET card == review_cards[r.h]
        IN  /\ (r.source = "none") <=> (r.raw = "")
            /\ r.raw # ""
                  => \/ /\ r.source = "wiI7pd"
                        /\ r.raw = PrimaryCandidate(card)
                     \/ /\ r.source = "rfdo_global"
                        /\ r.raw = RfdoGlobalText(review_cards, r.id)
                     \/ /\ r.source = "structural"
                        /\ r.raw = Join(FoundTexts(card.elems), " ")
                     \/ /\ r.source = "jslog127691"
                        /\ r.raw = Join(NarrowTexts(card), " ")

\* the joined candidate of strategy 3 for a record's card
StructuralCandidate(r) == Join(FoundTexts(review_cards[r.h].elems), " ")

HasDenylistToken(t) ==
    \E kw \in {"New", "Updated", "stars", "reviews", "^", "|"} :
        Contains(t, kw)

\* C26 as stated: lowercase letters divided by filtered characters < 0.05
RejectedByLength(t) ==
    LET f == KeepNoiseChars(t)
    IN  \/ WordCount(f) < 5
        \/ 100 * LowerCount(f) < 5 * Len(f)
        \/ HasDenylistToken(t)

\* C26 as amended: divided by the filtered characters plus one
RejectedByLengthPlusOne(t) ==
    LET f == KeepNoiseChars(t)
    IN  \/ WordCount(f) < 5
        \/ 100 * LowerCount(f) < 5 * (Len(f) + 1)
        \/ HasDenylistToken(t)

\* C26 (as stated): strategy 3 rejects its joined candidate exactly when
\* the filtered text has fewer than 5 words, or lowercase letters divided
\* by filtered characters is below 0.05, or the raw text holds a denylist
\* token; every other non-empty candidate is kept as structural.
C26_NoiseFilterOverLength ==
    \A r \in Records :
        (Ran(r, 3) /\ StructuralCandidate(r) # "")
            => IF RejectedByLength(StructuralCandidate(r))
               THEN Ran(r, 4)
               ELSE /\ r.raw = StructuralCandidate(r)
                    /\ r.source = "structural"
                    /\ r.tried = <<1, 2, 3>>

\* C26 (amended): the same with the lowercase letters divided by the
\* number of filtered characters plus one.
C26_NoiseFilter ==
    \A r \in Records :
        (Ran(r, 3) /\ StructuralCandidate(r) # "")
            => IF RejectedByLengthPlusOne(StructuralCandidate(r))
               THEN Ran(r, 4)
               ELSE /\ r.raw = StructuralCandidate(r)
                    /\ r.source = "structural"
                    /\ r.tried = <<1, 2, 3>>

\* C26 witness: five words, twenty filtered characters and one lowercase
\* letter, rejected
C26_Witness ==
    \E r \in Records :
        /\ StructuralCandidate(r) = "WOW BEST PIZZA IN La"
        /\ r.tried = <<1, 2, 3, 4>>
        /\ r.raw = ""

\* the text of the first primary span that is under no owner reply
FirstOwnSpan(card) ==
    LET S == {k \in 1..Len(card.wi) : ~card.wi[k].owner}
    IN  IF S = {} THEN ""
        ELSE card.wi[CHOOSE k \in S : \A m \in S : k <= m].text

\* C27: strategy 1 never uses a span under an owner reply: its candidate
\* is the text of the first span, in document order, with no owner-reply
\* ancestor, and it is empty when every span lies under an owner reply.
C27_PrimarySkipsOwner ==
    \A r \in Records :
        LET card == review_cards[r.h]
            candidate == FirstOwnSpan(card)
        IN  /\ is_valid_comment(candidate)
                  => (r.raw = candidate /\ r.source = "wiI7pd")
            /\ r.source = "wiI7pd"
                  => /\ r.raw = candidate
                     /\ \E k \in 1..Len(card.wi) :
                           ~card.wi[k].owner /\ card.wi[k].text = r.raw
            /\ (\A k \in 1..Len(card.wi) : card.wi[k].owner)
                  => /\ r.source # "wiI7pd"
                     /\ (r.tried = <<1>> => r.raw = "")

\* C27 witness: the owner's reply comes first and the review after it is
\* the text taken
C27_Witness ==
    \E r \in Records :
        LET card == review_cards[r.h]
        IN  /\ Len(card.wi) = 2
            /\ card.wi[1].owner
            /\ is_valid_comment(card.wi[1].text)
            /\ r.raw = card.wi[2].text
            /\ r.source = "wiI7pd"

ReadableIds ==
    {review_cards[h].id : h \in 1..Len(review_cards)} \ {IdError}

\* C28: every "More" button is clicked exactly once, in order; a click
\* that fails neither stops the later clicks, nor changes the entries
\* collected, nor ends the run.
C28_EveryButtonOnce ==
    /\ [][(clicks' # clicks /\ clicks' # <<>>)
            => /\ Len(clicks') = Len(clicks) + 1
               /\ pc' = "expand"
               /\ notices' = notices
               /\ review_cards' = review_cards
               /\ more_buttons' = more_buttons]_vars
    /\ [][pc = "expand" => pc' \in {"expand", "dedup"}]_vars
    /\ [](pc \notin {"idle", "loading", "ready", "scroll", "scrolled",
                     "expand"}
            => clicks = more_buttons)
    /\ [](unique_bound
            => /\ Len(unique_reviews) = Cardinality(ReadableIds)
               /\ \A k \in 1..Len(unique_reviews) :
                     unique_reviews[k].id \in ReadableIds)

\* C28 witness: a failed click, then a successful one, and the run done
\* with both entries recorded
C28_Witness ==
    /\ pc = "done"
    /\ clicks = <<"failed", "clicked">>
    /\ Len(data) = 2

AcceptedImages(card) ==
    {k \in 1..Len(card.images) : IsAcceptedUrl(StyleUrl(card.images[k].style))}

\* C29: a fetch that fails is confined to its image: every accepted image
\* of the entry is still tried, the record is still built, the failed
\* image's filename is not listed, and the image count is the number of
\* images fetched successfully.
C29_FetchFailureConfined ==
    /\ \A r \in Records :
          LET card == review_cards[r.h]
              Fetched == {k \in AcceptedImages(card) : card.images[k].ok}
          IN  /\ r.ImageCount = Cardinality(Fetched)
              /\ Len(r.fetched) = Cardinality(AcceptedImages(card))
              /\ \A k \in 1..Len(card.images) :
                    Contains(r.ImageFiles, ImageFilename(r.index, k - 1))
                        <=> k \in Fetched
    /\ pc = "done" => Len(data) = Len(unique_reviews)
    /\ (pc = "crashed" /\ unique_bound /\ tried # <<>>)
          => (Card.date = NoElement \/ ParsedRating(rating) = Raised)

\* C29 witness: the first image's fetch failed, the second was fetched
\* and is the only one listed
C29_Witness ==
    \E r \in Records :
        LET card == review_cards[r.h]
        IN  /\ Len(card.images) = 2
            /\ ~card.images[1].ok
            /\ Len(r.fetched) = 2
            /\ r.ImageCount = 1
            /\ r.ImageFiles = ImageFilename(r.index, 1)

\* C30: version 1.5 launches the browser and scrapes at most once in a
\* session.
C30_ScrapesOncePerSession ==
    launches <= 1

Ended == {"done", "returned", "crashed"}

\* C31: when a run of version 1.7 has ended, however it ended, no debug
\* log it wrote is left behind: the file was uploaded to the Debug Logs
\* folder and removed.
C31_DebugLogUploaded ==
    pc \in Ended => ~debug_file

\* C32: when a run that launched a browser session has ended, on whatever
\* path, the session is closed.
C32_BrowserClosed ==
    (pc \in Ended /\ driver # "none") => driver = "quit"

AllRoundsEmpty == grew = 0 /\ steady /\ last_review_count = 0

\* C33: the loader never stops after fewer than 3 rounds, and after round
\* 3 it stops exactly when the count was 0 in each of rounds 1, 2 and 3.
C33_ThreeRoundsIffEmpty ==
    /\ pc = "scrolled" => scroll_attempts >= 3
    /\ (pc \in {"scroll", "scrolled"} /\ scroll_attempts = 3)
          => (~ScrollCond(scroll_attempts, stable_scrolls) <=> AllRoundsEmpty)

\* C33 witness: the loader has stopped after three rounds that saw nothing
C33_Witness ==
    pc = "scrolled" /\ scroll_attempts = 3 /\ AllRoundsEmpty

\* where the first ", " of s starts (0-based), Len(s) when there is none
SeparatorAt(s) ==
    IF Contains(s, ", ")
    THEN CHOOSE k \in 0..(Len(s) - 2) :
            /\ SubSeq(s, k + 1, k + 2) = ", "
            /\ \A j \in 0..(k - 1) : SubSeq(s, j + 1, j + 2) # ", "
    ELSE Len(s)

\* the filenames listed in a record's ImageFiles column
RECURSIVE ListedFiles(_)
ListedFiles(s) ==
    IF s = "" THEN <<>>
    ELSE LET k == SeparatorAt(s)
         IN  <<SubSeq(s, 1, k)>>
             \o (IF k = Len(s) THEN <<>>
                 ELSE ListedFiles(SubSeq(s, k + 3, Len(s))))

EntryPart(image_filename) == SubSeq(image_filename, 1, 8)

\* C34: an entry's processing starts with as many records as its index,
\* so every filename listed in the k-th record (uid number k) has entry
\* part k, and no filename is listed twice, in one record or in two.
C34_FilenamesFollowNumbering ==
    /\ pc \in {"s1", "s2", "s3", "s4", "fields"} => Len(data) = i
    /\ \A k \in 1..Len(data) :
          LET files == ListedFiles(data[k].ImageFiles)
          IN  /\ data[k].ReviewUID = "R" \o Pad3(k)
              /\ Len(files) = data[k].ImageCount
              /\ \A a \in 1..Len(files) :
                    /\ EntryPart(files[a]) = "img_" \o Pad3(k) \o "_"
                    /\ \A b \in 1..Len(files) :
                          files[a] = files[b] => a = b
                    /\ \A l \in 1..Len(data) :
                          l # k => ~Contains(data[l].ImageFiles, files[a])

\* C34 witness: two records that each list two files
C34_Witness ==
    /\ Len(data) >= 2
    /\ data[1].ImageCount = 2
    /\ data[2].ImageCount = 2
    /\ Len(ListedFiles(data[2].ImageFiles)) = 2

====
